---- MODULE Spec2Model ----
(***************************************************************************)
(* Rate limiting engines of codetesla51/limitz over the in-memory store.   *)
(*                                                                         *)
(* Time is counted in clock ticks; cfg.tps ticks make one second (the code *)
(* counts nanoseconds, 1e9 to the second).  With TicksPerSec = 2 ticks to  *)
(* the second every float64 product and quotient of the code is exact, so  *)
(* integer arithmetic computes what the code computes.  One LeakyBucket    *)
(* configuration runs on a finer clock (0.8 ms ticks), where the float64   *)
(* product elapsed * rate of the code is not always exact: RoundedBelow    *)
(* lists the products that IEEE-754 double arithmetic rounds below the     *)
(* exact integer value.  One SlidingWindowCounter configuration has a      *)
(* window of 22 s, where the float64 estimate is not always exact:         *)
(* EstimateRoundedBelow lists the estimates that come out below the exact  *)
(* integer value (none of them changes the comparison with the limit).     *)
(*                                                                         *)
(* One behaviour runs one engine instance (cfg, chosen in Init) over its   *)
(* own MemoryStore.  Callers are the processes of Procs; a call of Allow   *)
(* is two steps (lock + read clock + store.Get, then decide + store.Set +  *)
(* unlock), so that the clock may advance and other callers may try to     *)
(* enter in between.  Some configurations differ: a constructor call that  *)
(* panics leaves no engine (SpecNew), a store may fail (SpecFault), the    *)
(* callers may use the empty key (SpecEmpty), a second engine instance may *)
(* work on the same store (SpecShared), from a host whose clock is behind  *)
(* (SpecSkew), all admissions of a TokenBucket may be logged (SpecLog).    *)
(* SpecLive has its own next-state relation, in which callers wait for the *)
(* engine's mutex and the sweep holds the store's mutex over two steps,    *)
(* and states fairness.                                                    *)
(***************************************************************************)
EXTENDS Integers, Sequences, FiniteSets, TLC

\* ---------------------------------------------------------------- bounds
MaxTime == 3            \* ticks of the clock, concurrent callers on any engine
MaxTimeSeq == 7         \* ticks of the clock, one caller on one engine
MaxCallsPerTick == 3    \* Allow calls begun on one key at one clock value
MaxTimeKeys == 1        \* ticks of the clock, two keys or a store that may fail
MaxCallsKeys == 2       \* Allow calls begun on one key at one clock value, two keys
MaxTimeLive == 1        \* ticks of the clock, callers that wait
MaxCallsLive == 1       \* Allow calls begun on one key at one clock value, callers that wait
MaxLimit == 2           \* capacities / limits are 1..MaxLimit
MaxRate == 2            \* refill / leak rates are 0..MaxRate per second

\* ------------------------------------------------------ program constants
TicksPerSec == 2                       \* time.Second, in ticks of half a second
HourTTL(c) == 3600 * c.tps             \* 1*time.Hour  (TokenBucket, LeakyBucket)
LongIdle(tps) == 3600 * tps + 1        \* an idle period that outlives every TTL
MinDuration == -(2^30)                 \* stand-ins for the two values a float64 +Inf
MaxDuration == 2^30                    \* converts to (math.MinInt64 / math.MaxInt64)

EmptyKey == ""                         \* the key that every MemoryStore call refuses
NamedKeys == {"k1", "k2"}
Keys == NamedKeys \cup {EmptyKey}
Procs == {"p1", "p2"}
Instances == {"a", "b"}                \* the engine instances: "b" is the peer, if any
StoreLock == "store"                   \* MemoryStore.mu
Locks == Instances \cup {StoreLock}
Engines == {"TokenBucket", "FixedWindow", "SlidingWindow", "SlidingWindowCounter", "LeakyBucket"}
WindowEngines == {"FixedWindow", "SlidingWindow", "SlidingWindowCounter"}
\* the engines whose Allow returns a Result (SlidingWindow.Allow returns a bool)
ResultEngines == Engines \ {"SlidingWindow"}
WindowSizes == {TicksPerSec, 2 * TicksPerSec}

VARIABLES
    cfg,      \* the engine instance and its callers:
              \* [engine, limit, rate, window, tps, procs, keys, horizon, steps, burst, faults,
              \*  log: whether the admissions of a rate engine are logged (history),
              \*  peer: a second engine instance on the same store, or NoPeer]
    now,      \* the wall clock, time.Now(), in ticks
    store,    \* MemoryStore.data: key -> entry
    mu,       \* per lock (the mutex of each engine instance, the mutex of the store):
              \* the holder, or "free"
    proc,     \* per caller: the Allow call in flight (key, now, bucket), the call it
              \* waits to enter (wait), or Idle
    last,     \* per key: the last completed call (history)
    inst,     \* per key: the calls begun / completed / admitted at one clock value (history)
    win,      \* per key: the calls completed / admitted in one window index (history)
    admits,   \* per key: the clock values of the admitted calls of the last window
              \* length (of all admitted calls, for a rate engine whose admissions
              \* are logged), since the last Reset (history)
    twin,     \* per key: the record of a key that gets this key's calls and no others on a
              \* store that never fails, a never-seen key at Init and after every Reset
    scen      \* per key: the calls of the scenario "window start, half a window later, next window"

vars == <<cfg, now, store, mu, proc, last, inst, win, admits, twin, scen>>

\* ------------------------------------------------------------ MemoryStore
Nil == [kind |-> "nil"]
NoEntry == [present |-> FALSE, value |-> Nil, expiration |-> 0]
Entry(v, exp) == [present |-> TRUE, value |-> v, expiration |-> exp]

\* time.Now().After(entry.expiration)
Expired(e, t) == t > e.expiration

\* MemoryStore.Get: the value, or Nil with an error when absent or expired
StoreGetValue(s, k, t) ==
    IF s[k].present /\ ~Expired(s[k], t) THEN s[k].value ELSE Nil

\* MemoryStore.Get / Exists delete an entry they find expired
StoreAfterLookup(s, k, t) ==
    IF s[k].present /\ Expired(s[k], t) THEN [s EXCEPT ![k] = NoEntry] ELSE s

\* an Exists that reports an expired entry as present
StoreExistsIgnoresExpiry(s, k, t) == s[k].present

\* MemoryStore.Exists
StoreExists(s, k, t) == s[k].present /\ ~Expired(s[k], t)

\* a Set that writes the value under every key
StoreSetShared(s, k, v, ttl, t) == [x \in Keys |-> Entry(v, t + ttl)]

\* MemoryStore.Set
StoreSet(s, k, v, ttl, t) == [s EXCEPT ![k] = Entry(v, t + ttl)]

\* a Delete that leaves the entry in the map
StoreDeleteKeeps(s, k) == s

\* MemoryStore.Delete: deletes whatever entry the map holds
StoreDelete(s, k) == [s EXCEPT ![k] = NoEntry]

\* a sweep that empties the map
StoreSweepAll(s, t) == [k \in Keys |-> NoEntry]

\* MemoryStore.cleanupExpired, one sweep
StoreSweep(s, t) ==
    [k \in Keys |-> IF s[k].present /\ Expired(s[k], t) THEN NoEntry ELSE s[k]]

\* ---------------------------------------------------------------- helpers
Min(a, b) == IF a < b THEN a ELSE b

\* Go's integer conversion and division truncate toward zero
GoDiv(a, b) == IF a >= 0 THEN a \div b ELSE -((-a) \div b)

\* int(n * r / tps), truncated toward zero, without the large intermediate product
TruncMulDiv(n, r, tps) ==
    LET a == IF n >= 0 THEN n ELSE -n
        q == (a \div tps) * r + ((a % tps) * r) \div tps
    IN  IF n >= 0 THEN q ELSE -q

Result(allowed, limit, remaining, retryAfter) ==
    [Allowed |-> allowed, Limit |-> limit, Remaining |-> remaining, RetryAfter |-> retryAfter]

\* time.Duration(float64(time.Second) / float64(rate)): for rate = 0 the quotient
\* is +Inf, whose conversion is implementation-dependent (u picks the outcome)
PerRate(c, u) ==
    IF c.rate > 0 THEN GoDiv(c.tps, c.rate)
    ELSE IF u = "min" THEN MinDuration ELSE MaxDuration

ConvChoices == {"min", "max"}

\* ------------------------------------------------------------ TokenBucket
\* a fresh bucket that starts empty instead of full
TokenBucketLoadEmpty(c, v, t) ==
    IF v = Nil THEN [Tokens |-> 0, LastRefillTs |-> t] ELSE v

\* the bucket Allow works on: the stored one, or a full one when Get fails
TokenBucketLoad(c, v, t) ==
    IF v = Nil THEN [Tokens |-> c.limit, LastRefillTs |-> t] ELSE v

\* a refill without the cap at the capacity
TokensToAddUncapped(c, b, t) == GoDiv(t - b.LastRefillTs, c.tps) * c.rate

\* tokensToAdd := min(int(timePassed.Seconds()) * RefillRate, Capacity - Tokens)
TokensToAdd(c, b, t) ==
    Min(GoDiv(t - b.LastRefillTs, c.tps) * c.rate, c.limit - b.Tokens)

\* an Allow that keeps the last token back (tokens > 1 instead of tokens > 0)
TokenBucketAllowKeepsOne(c, v, t, u) ==
    LET b0 == TokenBucketLoad(c, v, t)
        tokens == b0.Tokens + TokensToAdd(c, b0, t)
    IN  IF tokens > 1
        THEN [bucket |-> [Tokens |-> tokens - 1, LastRefillTs |-> t],
              res |-> Result(TRUE, c.limit, tokens - 1, 0),
              ttl |-> HourTTL(c)]
        ELSE [bucket |-> [Tokens |-> tokens, LastRefillTs |-> t],
              res |-> Result(FALSE, c.limit, tokens, PerRate(c, u)),
              ttl |-> HourTTL(c)]

TokenBucketAllow(c, v, t, u) ==
    LET b0 == TokenBucketLoad(c, v, t)
        tokens == b0.Tokens + TokensToAdd(c, b0, t)
    IN  IF tokens > 0
        THEN [bucket |-> [Tokens |-> tokens - 1, LastRefillTs |-> t],
              res |-> Result(TRUE, c.limit, tokens - 1, 0),
              ttl |-> HourTTL(c)]
        ELSE [bucket |-> [Tokens |-> tokens, LastRefillTs |-> t],
              res |-> Result(FALSE, c.limit, tokens, PerRate(c, u)),
              ttl |-> HourTTL(c)]

\* ------------------------------------------------------------ FixedWindow
\* a load that forgets the stored count
FixedWindowLoadForgets(v) == IF v = Nil THEN [Count |-> 0, Window |-> 0] ELSE [v EXCEPT !.Count = 0]

FixedWindowLoad(v) == IF v = Nil THEN [Count |-> 0, Window |-> 0] ELSE v

\* int(nowNanos / windowSizeNanos)
WindowIndex(c, t) == t \div c.window

\* a RetryAfter of one whole window, whatever the position inside the window
UntilNextWindowWhole(c, t) == c.window

\* nextWindowStart - nowNanos
UntilNextWindow(c, t) == (WindowIndex(c, t) + 1) * c.window - t

\* an Allow that denies the call that reaches the limit (count >= limit)
FixedWindowAllowOffByOne(c, v, t, u) ==
    LET b0 == FixedWindowLoad(v)
        w == WindowIndex(c, t)
        count == (IF w # b0.Window THEN 0 ELSE b0.Count) + 1
        b1 == [Count |-> count, Window |-> w]
    IN  IF count >= c.limit
        THEN [bucket |-> b1,
              res |-> Result(FALSE, c.limit, 0, UntilNextWindow(c, t)),
              ttl |-> c.window]
        ELSE [bucket |-> b1,
              res |-> Result(TRUE, c.limit, c.limit - count, 0),
              ttl |-> c.window]

FixedWindowAllow(c, v, t, u) ==
    LET b0 == FixedWindowLoad(v)
        w == WindowIndex(c, t)
        count == (IF w # b0.Window THEN 0 ELSE b0.Count) + 1
        b1 == [Count |-> count, Window |-> w]
    IN  IF count > c.limit
        THEN [bucket |-> b1,
              res |-> Result(FALSE, c.limit, 0, UntilNextWindow(c, t)),
              ttl |-> c.window]
        ELSE [bucket |-> b1,
              res |-> Result(TRUE, c.limit, c.limit - count, 0),
              ttl |-> c.window]

\* ---------------------------------------------------------- SlidingWindow
SlidingWindowLoad(v) == IF v = Nil THEN [Timestamps |-> << >>] ELSE v

\* a filter whose window starts one tick late: it forgets a request too early
ValidTimestampsLateStart(c, ts, t) ==
    LET InWindow(x) == x > t - c.window + 1 IN SelectSeq(ts, InWindow)

\* a filter that keeps the timestamp on the window start (>= instead of >)
ValidTimestampsKeepsEdge(c, ts, t) ==
    LET InWindow(x) == x >= t - c.window IN SelectSeq(ts, InWindow)

\* the timestamps kept: ts > windowStart, windowStart = now - WindowSize
ValidTimestamps(c, ts, t) ==
    LET InWindow(x) == x > t - c.window IN SelectSeq(ts, InWindow)

\* an Allow that logs the denied call too
SlidingWindowAllowLogsDenied(c, v, t, u) ==
    LET valid == ValidTimestamps(c, SlidingWindowLoad(v).Timestamps, t)
    IN  IF Len(valid) < c.limit
        THEN [bucket |-> [Timestamps |-> Append(valid, t)],
              res |-> [Allowed |-> TRUE],
              ttl |-> c.window]
        ELSE [bucket |-> [Timestamps |-> Append(valid, t)],
              res |-> [Allowed |-> FALSE],
              ttl |-> c.window]

\* Allow returns a bare bool
SlidingWindowAllow(c, v, t, u) ==
    LET valid == ValidTimestamps(c, SlidingWindowLoad(v).Timestamps, t)
    IN  IF Len(valid) < c.limit
        THEN [bucket |-> [Timestamps |-> Append(valid, t)],
              res |-> [Allowed |-> TRUE],
              ttl |-> c.window]
        ELSE [bucket |-> [Timestamps |-> valid],
              res |-> [Allowed |-> FALSE],
              ttl |-> c.window]

\* --------------------------------------------------- SlidingWindowCounter
SlidingWindowCounterLoad(c, v, t) ==
    IF v = Nil
    THEN [PreviousCount |-> 0, CurrentCount |-> 0, CurrentWindow |-> WindowIndex(c, t)]
    ELSE v

\* "Did we move to a new window?": any other window index shifts the counts
SlidingWindowCounterShift(c, b, t) ==
    IF WindowIndex(c, t) # b.CurrentWindow
    THEN [PreviousCount |-> b.CurrentCount, CurrentCount |-> 0,
          CurrentWindow |-> WindowIndex(c, t)]
    ELSE b

\* an estimate that forgets the previous window
EstimateNoOverlap(c, b, t) == b.CurrentCount * c.window

\* an estimate that forgets the current window
EstimatePreviousOnly(c, b, t) == b.PreviousCount * (c.window - (t % c.window))

\* estimate = PreviousCount * overlap / windowSize + CurrentCount, kept as the
\* numerator over windowSize: EstimateTimesWindow = estimate * windowSize
EstimateTimesWindow(c, b, t) ==
    b.PreviousCount * (c.window - (t % c.window)) + b.CurrentCount * c.window

\* <<window, overlap, previous, current>>: the float64 estimate
\* float64(previous) * (float64(overlap) / float64(window)) + float64(current)
\* lies just below its exact integer value, so that int() yields one less
\* (22 * (15/22) = 14.999999999999998, and + 1 = 15.999999999999998)
EstimateRoundedBelow == { <<22, 15, 22, 0>>, <<22, 15, 22, 1>> }

\* int(estimate)
EstimateFloor(c, b, t) ==
    LET exact == GoDiv(EstimateTimesWindow(c, b, t), c.window)
    IN  IF <<c.window, c.window - (t % c.window), b.PreviousCount, b.CurrentCount>>
                \in EstimateRoundedBelow
        THEN exact - 1 ELSE exact

\* an Allow that admits while estimate <= limit
SlidingWindowCounterAllowNonStrict(c, v, t, u) ==
    LET b1 == SlidingWindowCounterShift(c, SlidingWindowCounterLoad(c, v, t), t)
        est == EstimateTimesWindow(c, b1, t)
    IN  IF est <= c.limit * c.window
        THEN [bucket |-> [b1 EXCEPT !.CurrentCount = @ + 1],
              res |-> Result(TRUE, c.limit, c.limit - EstimateFloor(c, b1, t), 0),
              ttl |-> 2 * c.window]
        ELSE [bucket |-> b1,
              res |-> Result(FALSE, c.limit, 0, UntilNextWindow(c, t)),
              ttl |-> 2 * c.window]

\* an Allow that persists with the TTL of one window
SlidingWindowCounterAllowOneWindowTTL(c, v, t, u) ==
    LET b1 == SlidingWindowCounterShift(c, SlidingWindowCounterLoad(c, v, t), t)
        est == EstimateTimesWindow(c, b1, t)
    IN  IF est < c.limit * c.window
        THEN [bucket |-> [b1 EXCEPT !.CurrentCount = @ + 1],
              res |-> Result(TRUE, c.limit, c.limit - EstimateFloor(c, b1, t), 0),
              ttl |-> c.window]
        ELSE [bucket |-> b1,
              res |-> Result(FALSE, c.limit, 0, UntilNextWindow(c, t)),
              ttl |-> c.window]

SlidingWindowCounterAllow(c, v, t, u) ==
    LET b1 == SlidingWindowCounterShift(c, SlidingWindowCounterLoad(c, v, t), t)
        est == EstimateTimesWindow(c, b1, t)
    IN  IF est < c.limit * c.window
        THEN [bucket |-> [b1 EXCEPT !.CurrentCount = @ + 1],
              res |-> Result(TRUE, c.limit, c.limit - EstimateFloor(c, b1, t), 0),
              ttl |-> 2 * c.window]
        ELSE [bucket |-> b1,
              res |-> Result(FALSE, c.limit, 0, UntilNextWindow(c, t)),
              ttl |-> 2 * c.window]

\* ------------------------------------------------------------ LeakyBucket
LeakyBucketLoad(v, t) == IF v = Nil THEN [Queue |-> 0, LastLeak |-> t] ELSE v

\* <<tps, rate, n>>: the float64 product Duration(n ticks).Seconds() * float64(rate)
\* lies just below its exact integer value n * rate / tps, so that int() yields
\* one less (4.8 ms * 625 = 2.9999999999999996, 9.6 ms * 625 = 5.999999999999999)
RoundedBelow == { <<1250, 625, 6>>, <<1250, 625, 12>> }

\* leaked := int(elapsed * float64(Rate)), elapsed in seconds as a float64
Leaked(c, b, t) ==
    LET n == t - b.LastLeak
        exact == TruncMulDiv(n, c.rate, c.tps)
    IN  IF <<c.tps, c.rate, n>> \in RoundedBelow THEN exact - 1 ELSE exact

\* an Allow whose denial takes a request out of the queue
LeakyBucketAllowForgets(c, v, t, u) ==
    LET b0 == LeakyBucketLoad(v, t)
        q0 == b0.Queue - Leaked(c, b0, t)
        q == IF q0 < 0 THEN 0 ELSE q0
    IN  IF q < c.limit
        THEN [bucket |-> [Queue |-> q + 1, LastLeak |-> t],
              res |-> Result(TRUE, c.limit, c.limit - (q + 1), 0),
              ttl |-> HourTTL(c)]
        ELSE [bucket |-> [Queue |-> q - 1, LastLeak |-> t],
              res |-> Result(FALSE, c.limit, 0, PerRate(c, u)),
              ttl |-> HourTTL(c)]

LeakyBucketAllow(c, v, t, u) ==
    LET b0 == LeakyBucketLoad(v, t)
        q0 == b0.Queue - Leaked(c, b0, t)
        q == IF q0 < 0 THEN 0 ELSE q0
    IN  IF q < c.limit
        THEN [bucket |-> [Queue |-> q + 1, LastLeak |-> t],
              res |-> Result(TRUE, c.limit, c.limit - (q + 1), 0),
              ttl |-> HourTTL(c)]
        ELSE [bucket |-> [Queue |-> q, LastLeak |-> t],
              res |-> Result(FALSE, c.limit, 0, PerRate(c, u)),
              ttl |-> HourTTL(c)]

\* ------------------------------------------------------- the engine's Allow
\* decide + the record to persist, for the configured engine
EngineAllow(c, v, t, u) ==
    CASE c.engine = "TokenBucket" -> TokenBucketAllow(c, v, t, u)
      [] c.engine = "FixedWindow" -> FixedWindowAllow(c, v, t, u)
      [] c.engine = "SlidingWindow" -> SlidingWindowAllow(c, v, t, u)
      [] c.engine = "SlidingWindowCounter" -> SlidingWindowCounterAllow(c, v, t, u)
      [] c.engine = "LeakyBucket" -> LeakyBucketAllow(c, v, t, u)

\* the denial of a rate engine with rate 0 converts +Inf to a Duration
ConvOutcomes(c, v, t) ==
    IF c.rate = 0 /\ c.engine \in {"TokenBucket", "LeakyBucket"}
       /\ ~EngineAllow(c, v, t, "min").res.Allowed
    THEN ConvChoices ELSE {"min"}

\* ---------------------------------------------------------- configurations
\* no second engine instance on the store (skew: how far the clock of the peer's
\* host is behind the clock of the first instance's host, in ticks)
NoPeer == [engine |-> "none", limit |-> 0, rate |-> 0, window |-> 1, skew |-> 0]

\* NewTokenBucket / NewLeakyBucket(capacity, rate): no window;
\* NewFixedWindow / NewSlidingWindow / NewSlidingWindowCounter(limit, windowSize): no rate.
\* The clock steps by one tick; for the engines with the one-hour TTL also by a
\* long idle period (for the window engines a few ticks already outlive the TTL).
Configs(engines, procs, keys, horizon) ==
    { [engine |-> e, limit |-> l, rate |-> r, window |-> w, tps |-> TicksPerSec,
       procs |-> procs, keys |-> keys, horizon |-> horizon,
       steps |-> {1, LongIdle(TicksPerSec)}, burst |-> MaxCallsPerTick, faults |-> FALSE,
       log |-> FALSE, peer |-> NoPeer] :
        e \in engines \cap {"TokenBucket", "LeakyBucket"},
        l \in 1..MaxLimit, r \in 0..MaxRate, w \in {TicksPerSec} }
    \cup
    { [engine |-> e, limit |-> l, rate |-> r, window |-> w, tps |-> TicksPerSec,
       procs |-> procs, keys |-> keys, horizon |-> horizon, steps |-> {1},
       burst |-> MaxCallsPerTick, faults |-> FALSE, log |-> FALSE, peer |-> NoPeer] :
        e \in engines \cap WindowEngines,
        l \in 1..MaxLimit, r \in {0}, w \in WindowSizes }

\* NewLeakyBucket(3, 625, s) on a clock of 0.8 ms ticks (1250 to the second)
FineLeakyBucket(procs, keys, horizon) ==
    [engine |-> "LeakyBucket", limit |-> 3, rate |-> 625, window |-> 1250, tps |-> 1250,
     procs |-> procs, keys |-> keys, horizon |-> horizon, steps |-> {1, LongIdle(1250)},
     burst |-> MaxCallsPerTick, faults |-> FALSE, log |-> FALSE, peer |-> NoPeer]

\* NewSlidingWindowCounter(22, 22 s, s) on a clock of 1 s ticks that steps once,
\* by a whole window or by a window and 7 s, with up to limit calls at one clock
\* value
FineSlidingWindowCounter(procs, keys) ==
    [engine |-> "SlidingWindowCounter", limit |-> 22, rate |-> 0, window |-> 22, tps |-> 1,
     procs |-> procs, keys |-> keys, horizon |-> 1, steps |-> {22, 22 + 7},
     burst |-> 22, faults |-> FALSE, log |-> FALSE, peer |-> NoPeer]

\* ------------------------------------------------------------------ state
\* geterr: store.Get returned an error that is not "absent or expired";
\* wait: the call ("Allow", "Reset") the caller has made and not yet entered
Idle == [busy |-> FALSE, key |-> "", tnow |-> 0, value |-> Nil, tvalue |-> Nil, geterr |-> FALSE,
         wait |-> "none"]
InAllow(k, t, v, tv) ==
    [busy |-> TRUE, key |-> k, tnow |-> t, value |-> v, tvalue |-> tv, geterr |-> FALSE,
     wait |-> "none"]
Waiting(op, k) == [Idle EXCEPT !.wait = op, !.key = k]

\* the engine instance a caller calls: with a peer, p2 calls the peer
HasPeer == cfg.peer.engine # "none"
InstOf(p) == IF HasPeer /\ p = "p2" THEN "b" ELSE "a"
CfgOf(p) ==
    IF HasPeer /\ p = "p2"
    THEN [cfg EXCEPT !.engine = cfg.peer.engine, !.limit = cfg.peer.limit,
                     !.rate = cfg.peer.rate, !.window = cfg.peer.window]
    ELSE cfg

\* time.Now() on the host of the caller's engine instance
Clock(p) == IF HasPeer /\ p = "p2" THEN now - cfg.peer.skew ELSE now

\* the Go type of a stored value (or the type its JSON text was written from)
BucketType(v) ==
    IF v = Nil THEN "nil"
    ELSE IF "Tokens" \in DOMAIN v THEN "TokenBucket"
    ELSE IF "Count" \in DOMAIN v THEN "FixedWindow"
    ELSE IF "Timestamps" \in DOMAIN v THEN "SlidingWindow"
    ELSE IF "CurrentCount" \in DOMAIN v THEN "SlidingWindowCounter"
    ELSE "LeakyBucket"

\* the type switch on the value of Get: a value of the engine's own bucket type
\* is used, any other value (default case; a JSON text of another bucket type
\* parses to a zero bucket) gives the same bucket as no record
OwnValue(c, v) == IF BucketType(v) = c.engine THEN v ELSE Nil

\* an Allow that decides on the record the store holds when it comes to its Set
DecideOnHeld(read, held) == held

\* Allow decides on the value its Get returned (bucket = v), whatever the store
\* holds by the time of its Set
DecideOn(read, held) == read

\* history of the last call on a key: op, the clock value it read (t), the value
\* Get returned (pre, Nil when absent), the value Set wrote (post), the Result,
\* the twin's Result, the time since the previous Allow (gap, -1 when none), the
\* value that Allow wrote (prevPost), the store operations that failed in the
\* call (fault), the call made on the key before it (prev: its op, "ResetErr"
\* for a Reset that returned an error) and, for a denial of a rate engine, the
\* clock value of the first of the denials in a row that it ends (since, -1 for
\* any other call)
NoCall == [op |-> "none", by |-> "", t |-> 0, pre |-> Nil, post |-> Nil, res |-> Nil,
           err |-> FALSE, twin |-> Nil, gap |-> -1, prevPost |-> Nil,
           fault |-> {}, prev |-> "none", since |-> -1]
\* the calls of one clock value since the last Reset (with a peer: of both
\* instances, Resets or not): idle is the time since the previous Allow of the
\* key when that Allow left the key exhausted (-1 otherwise)
NoInst == [t |-> -1, begun |-> 0, done |-> 0, allowed |-> 0, fresh |-> FALSE, clear |-> FALSE,
           idle |-> -1]
NoWin == [w |-> -1, calls |-> 0, allowed |-> 0]
\* a never-seen key has no record; no twin is kept for a store that may fail
\* (RedisStore), for a store that two engine instances share and for the empty key
TwinNew == [on |-> TRUE, entry |-> NoEntry, exhausted |-> FALSE]
TwinOff == [on |-> FALSE, entry |-> NoEntry, exhausted |-> FALSE]
NoScen == [t0 |-> -1, calls |-> << >>]

\* the engines whose admissions are logged
LogEngines == WindowEngines

\* the log after a call at t: the admissions later than t - window, and t itself
\* when the call was admitted
AdmitsAfter(log, t, allowed) ==
    LET Recent(x) == x > t - cfg.window
        kept == SelectSeq(log, Recent)
    IN  IF allowed THEN Append(kept, t) ELSE kept

\* all earlier admissions of the key lie a full window or more before t
WindowClear(k, t) == \A i \in DOMAIN admits[k] : admits[k][i] <= t - cfg.window

\* the scenario of a fresh key: two calls at a window start t0, two calls half a
\* window later, two calls at one instant of the next window
ScenNext(sc, v, t, allowed) ==
    LET n == Len(sc.calls)
        call == [dt |-> t - sc.t0, allowed |-> allowed]
        follows ==
            /\ sc.t0 >= 0
            /\ \/ n = 1 /\ t = sc.t0
               \/ n \in {2, 3} /\ 2 * (t - sc.t0) = cfg.window
               \/ n = 4 /\ t - sc.t0 >= cfg.window /\ t - sc.t0 < 2 * cfg.window
               \/ n = 5 /\ t - sc.t0 = sc.calls[5].dt
    IN  IF follows THEN [sc EXCEPT !.calls = Append(@, call)]
        ELSE IF v = Nil /\ t % cfg.window = 0
        THEN [t0 |-> t, calls |-> << [dt |-> 0, allowed |-> allowed] >>]
        ELSE NoScen

InitWith(configs) ==
    /\ cfg \in configs
    /\ now = 0
    /\ store = [k \in Keys |-> NoEntry]
    /\ mu = [l \in Locks |-> "free"]
    /\ proc = [p \in Procs |-> Idle]
    /\ last = [k \in Keys |-> NoCall]
    /\ inst = [k \in Keys |-> NoInst]
    /\ win = [k \in Keys |-> NoWin]
    /\ admits = [k \in Keys |-> << >>]
    /\ twin = [k \in Keys |-> IF cfg.faults \/ HasPeer \/ k = EmptyKey THEN TwinOff
                                ELSE TwinNew]
    /\ scen = [k \in Keys |-> NoScen]

Init == InitWith(Configs(Engines, Procs, {"k1"}, MaxTime))

\* a Lock that lets every caller in
LockNever(p) == TRUE

\* mu.Lock() of the caller's engine instance returns only while no caller holds
\* that mutex
LockFree(p) == mu[InstOf(p)] = "free"

\* ms.mu.Lock() of the store returns only while nobody holds the store's mutex
\* (every store call locks and unlocks it; the sweep holds it while it runs)
StoreFree == mu[StoreLock] = "free"

\* an unlock that is skipped when the call returns an error
UnlockOnSuccess(m, p, err) == IF err THEN m ELSE [m EXCEPT ![InstOf(p)] = "free"]

\* defer mu.Unlock(): the engine's mutex is released on every return
Unlock(m, p, err) == [m EXCEPT ![InstOf(p)] = "free"]

\* --------------------------------------------------------------- actions
\* the outcomes of a store call on key k: every call with the empty key returns
\* the error "key cannot be empty" before it touches the map; a store behind a
\* network (RedisStore) may fail on connectivity or a timeout, MemoryStore never
\* does for a non-empty key
StoreOutcomes(c, k) ==
    IF k = EmptyKey THEN {"fail"}
    ELSE IF c.faults THEN {"ok", "fail"} ELSE {"ok"}

\* the Result and error of an Allow whose store.Set failed: Result{} and the
\* error where the code checks the error of Set; SlidingWindow.Allow drops it
\* and returns its bare bool
SetFailed(c, d) ==
    IF c.engine = "SlidingWindow"
    THEN [res |-> d.res, err |-> FALSE]
    ELSE [res |-> Result(FALSE, 0, 0, 0), err |-> TRUE]

\* Allow, first half: mu.Lock(); now := time.Now(); store.Get(key)
AllowBegin(p, k) ==
    /\ p \in cfg.procs /\ k \in cfg.keys
    /\ ~proc[p].busy
    /\ LockFree(p) /\ StoreFree
    /\ inst[k].t = now => inst[k].begun < cfg.burst
    /\ mu' = [mu EXCEPT ![InstOf(p)] = p]
    /\ \E g \in StoreOutcomes(cfg, k) :
        /\ proc' = [proc EXCEPT ![p] =
                    [InAllow(k, Clock(p),
                             IF g = "ok" THEN StoreGetValue(store, k, now) ELSE Nil,
                             IF twin[k].on /\ twin[k].entry.present /\ ~Expired(twin[k].entry, now)
                             THEN twin[k].entry.value ELSE Nil)
                     EXCEPT !.geterr = (g = "fail")]]
        /\ store' = IF g = "ok" THEN StoreAfterLookup(store, k, now) ELSE store
    /\ twin' = [twin EXCEPT ![k] =
                    IF @.entry.present /\ Expired(@.entry, now)
                    THEN [@ EXCEPT !.entry = NoEntry] ELSE @]
    /\ inst' = [inst EXCEPT ![k] =
                    IF @.t = now THEN [@ EXCEPT !.begun = @ + 1]
                    ELSE [t |-> now, begun |-> 1, done |-> 0, allowed |-> 0,
                          fresh |-> StoreGetValue(store, k, now) = Nil,
                          clear |-> WindowClear(k, now),
                          idle |-> IF /\ cfg.engine = "TokenBucket" /\ last[k].op = "Allow"
                                      /\ BucketType(last[k].post) = "TokenBucket"
                                      /\ last[k].post.Tokens = 0
                                   THEN now - last[k].t ELSE -1]]
    /\ UNCHANGED <<cfg, now, last, win, admits, scen>>

\* Allow, second half: the type switch on the value read, the engine's update
\* rule, store.Set, return (unlock)
AllowEnd(p) ==
    /\ proc[p].busy
    /\ StoreFree
    /\ LET k == proc[p].key
           t == proc[p].tnow
           c == CfgOf(p)
           v == OwnValue(c, DecideOn(proc[p].value, StoreGetValue(store, k, now)))
       IN \E u \in ConvOutcomes(c, v, t), f \in StoreOutcomes(c, k) :
            LET d == EngineAllow(c, v, t, u)
                td == EngineAllow(c, proc[p].tvalue, t, u)
                ret == IF f = "ok" THEN [res |-> d.res, err |-> FALSE] ELSE SetFailed(c, d)
                one == IF ret.res.Allowed THEN 1 ELSE 0
                w == WindowIndex(c, t)
            IN
            /\ store' = IF f = "ok" THEN StoreSet(store, k, d.bucket, d.ttl, now) ELSE store
            /\ twin' = [twin EXCEPT ![k] =
                    IF @.on THEN [@ EXCEPT !.entry = Entry(td.bucket, now + td.ttl)] ELSE @]
            /\ last' = [last EXCEPT ![k] =
                    [op |-> "Allow", by |-> p, t |-> t, pre |-> proc[p].value, post |-> d.bucket,
                     res |-> ret.res, err |-> ret.err,
                     twin |-> IF twin[k].on THEN td.res ELSE Nil,
                     gap |-> IF @.op = "Allow" THEN t - @.t ELSE -1,
                     prevPost |-> IF @.op = "Allow" THEN @.post ELSE Nil,
                     fault |-> (IF proc[p].geterr THEN {"get"} ELSE {})
                               \cup (IF f = "fail" THEN {"set"} ELSE {}),
                     prev |-> IF @.op = "Reset" /\ @.err THEN "ResetErr" ELSE @.op,
                     since |-> IF c.engine \in WindowEngines \/ ret.err \/ ret.res.Allowed
                               THEN -1
                               ELSE IF @.since >= 0 THEN @.since ELSE t]]
            /\ inst' = [inst EXCEPT ![k] =
                    IF @.t = t
                    THEN [@ EXCEPT !.done = @ + 1, !.allowed = @ + one]
                    ELSE @]
            /\ win' = [win EXCEPT ![k] =
                    IF c.engine \notin WindowEngines THEN @
                    ELSE IF @.w = w
                    THEN [@ EXCEPT !.calls = @ + 1, !.allowed = @ + one]
                    ELSE [w |-> w, calls |-> 1, allowed |-> one]]
            /\ admits' = [admits EXCEPT ![k] =
                    IF c.engine \in LogEngines THEN AdmitsAfter(@, t, ret.res.Allowed)
                    ELSE IF cfg.log /\ ret.res.Allowed THEN Append(@, t)
                    ELSE @]
            /\ scen' = [scen EXCEPT ![k] =
                    IF c.engine = "SlidingWindowCounter"
                    THEN ScenNext(@, v, t, ret.res.Allowed) ELSE @]
            /\ mu' = Unlock(mu, p, ret.err)
    /\ proc' = [proc EXCEPT ![p] = Idle]
    /\ UNCHANGED <<cfg, now>>

\* Reset: mu.Lock(); store.Exists(key); error when absent, else store.Delete(key);
\* return (unlock)
Reset(p, k) ==
    /\ p \in cfg.procs /\ k \in cfg.keys
    /\ ~proc[p].busy
    /\ LockFree(p) /\ StoreFree
    /\ LET exists == StoreExists(store, k, now)
           s1 == StoreAfterLookup(store, k, now)
       IN /\ store' = IF exists THEN StoreDelete(s1, k) ELSE s1
          /\ last' = [last EXCEPT ![k] =
                    [op |-> "Reset", by |-> p, t |-> now, pre |-> StoreGetValue(store, k, now),
                     post |-> Nil, res |-> Nil, err |-> ~exists,
                     twin |-> Nil, gap |-> -1, prevPost |-> Nil,
                     fault |-> {},
                     prev |-> IF @.op = "Reset" /\ @.err THEN "ResetErr" ELSE @.op,
                     since |-> -1]]
          /\ twin' = [twin EXCEPT ![k] =
                    IF exists
                    THEN [on |-> @.on, entry |-> NoEntry,
                          exhausted |-> last[k].op = "Allow" /\ ~last[k].res.Allowed
                                        /\ last[k].t = now]
                    ELSE @]
          /\ mu' = Unlock([mu EXCEPT ![InstOf(p)] = p], p, ~exists)
    /\ proc' = [proc EXCEPT ![p] = Idle]
    /\ inst' = [inst EXCEPT ![k] = IF HasPeer THEN @ ELSE NoInst]
    /\ win' = [win EXCEPT ![k] = NoWin]
    /\ admits' = [admits EXCEPT ![k] = << >>]
    /\ scen' = [scen EXCEPT ![k] = NoScen]
    /\ UNCHANGED <<cfg, now>>

\* the sweep of MemoryStore.cleanupExpired, whenever its ticker fires
Sweep ==
    /\ StoreFree
    /\ \E k \in Keys : store[k].present /\ Expired(store[k], now)
    /\ store' = StoreSweep(store, now)
    /\ twin' = [k \in Keys |->
                 IF twin[k].entry.present /\ Expired(twin[k].entry, now)
                 THEN [twin[k] EXCEPT !.entry = NoEntry] ELSE twin[k]]
    /\ UNCHANGED <<cfg, now, mu, proc, last, inst, win, admits, scen>>

\* the clock advances, by one tick or by a long idle period
Tick ==
    /\ now < cfg.horizon
    /\ \E d \in cfg.steps : now' = now + d
    /\ UNCHANGED <<cfg, store, mu, proc, last, inst, win, admits, twin, scen>>

Next ==
    \/ \E p \in Procs, k \in Keys : AllowBegin(p, k)
    \/ \E p \in Procs : AllowEnd(p)
    \/ \E p \in Procs, k \in Keys : Reset(p, k)
    \/ Sweep
    \/ Tick

Spec == Init /\ [][Next]_vars

\* one caller on one engine, over a longer time
InitTB == InitWith(Configs({"TokenBucket"}, {"p1"}, {"k1"}, MaxTimeSeq))
InitFW == InitWith(Configs({"FixedWindow"}, {"p1"}, {"k1"}, MaxTimeSeq))
InitSW == InitWith(Configs({"SlidingWindow"}, {"p1"}, {"k1"}, MaxTimeSeq))
InitSWC == InitWith(Configs({"SlidingWindowCounter"}, {"p1"}, {"k1"}, MaxTimeSeq))
InitLB == InitWith(Configs({"LeakyBucket"}, {"p1"}, {"k1"}, MaxTimeSeq)
                   \cup {FineLeakyBucket({"p1"}, {"k1"}, MaxTimeSeq)})

SpecTB == InitTB /\ [][Next]_vars
SpecFW == InitFW /\ [][Next]_vars
SpecSW == InitSW /\ [][Next]_vars
SpecSWC == InitSWC /\ [][Next]_vars
SpecLB == InitLB /\ [][Next]_vars

\* one caller on SlidingWindowCounter, with the window of 22 s among the windows
InitSWCFine == InitWith(Configs({"SlidingWindowCounter"}, {"p1"}, {"k1"}, MaxTimeSeq)
                        \cup {FineSlidingWindowCounter({"p1"}, {"k1"})})
SpecSWCFine == InitSWCFine /\ [][Next]_vars

\* NewTokenBucket(capacity, refillRate, s) takes any two ints: capacities -1 and 0
EdgeConfigs ==
    { [c EXCEPT !.limit = l] :
        c \in Configs({"TokenBucket"}, {"p1"}, {"k1"}, MaxTime), l \in {-1, 0} }
InitEdge == InitWith(Configs(ResultEngines, {"p1"}, {"k1"}, MaxTime) \cup EdgeConfigs)
SpecEdge == InitEdge /\ [][Next]_vars

\* what a constructor that panics leaves behind: no engine, so no caller
NoEngine(c) == [c EXCEPT !.engine = "none", !.procs = {}]

\* a constructor that takes any window size
NewEngineUnchecked(c) == c

\* the constructors: NewFixedWindow, NewSlidingWindow and NewSlidingWindowCounter
\* panic when windowSize <= 0; no constructor looks at the limit, the capacity
\* or the rate
NewEngine(c) ==
    IF c.engine \in WindowEngines /\ c.window <= 0 THEN NoEngine(c) ELSE c

\* the constructor calls: any engine, limits and capacities from 0, and for the
\* window engines also the window sizes -1 s and 0
Requests ==
    { [c EXCEPT !.limit = l] :
        c \in Configs(Engines, {"p1"}, {"k1"}, MaxTime), l \in 0..MaxLimit }
    \cup
    { [c EXCEPT !.limit = l, !.window = w] :
        c \in Configs(WindowEngines, {"p1"}, {"k1"}, MaxTime),
        l \in 0..MaxLimit, w \in {-TicksPerSec, 0} }
InitNew == InitWith({ NewEngine(c) : c \in Requests })
SpecNew == InitNew /\ [][Next]_vars

\* one caller on a store whose Get and Set may fail (RedisStore), any engine
FaultConfigs ==
    { [c EXCEPT !.faults = TRUE] : c \in Configs(Engines, {"p1"}, {"k1"}, MaxTimeKeys) }
InitFault == InitWith(FaultConfigs)
SpecFault == InitFault /\ [][Next]_vars

\* one caller, two keys, any engine with a limit that the calls of one clock
\* value exhaust, rate 1, the window of one second; the clock steps by one
\* tick or by an idle period that outlives every TTL
KeysConfigs ==
    { [c EXCEPT !.steps = {1, LongIdle(c.tps)}, !.burst = MaxCallsKeys] :
        c \in { x \in Configs(Engines, {"p1"}, NamedKeys, MaxTimeKeys) :
                    /\ x.limit < MaxCallsKeys /\ x.window = TicksPerSec
                    /\ x.engine \in WindowEngines \/ x.rate = 1 } }
InitKeys == InitWith(KeysConfigs)
SpecKeys == InitKeys /\ [][Next]_vars

\* one caller that calls with the empty key and with a named key, any engine
EmptyKeyConfigs == { [c EXCEPT !.keys = {"k1", EmptyKey}] : c \in KeysConfigs }
InitEmpty == InitWith(EmptyKeyConfigs)
SpecEmpty == InitEmpty /\ [][Next]_vars

\* two engine instances, one caller each, on one key of one store that hands out
\* copies of its values (RedisStore returns the JSON text): a TokenBucket and a
\* FixedWindow of the same limit, or two FixedWindow instances of the same limit,
\* with the window of one second
SharedConfigs ==
    { [c EXCEPT !.burst = MaxCallsKeys,
                !.peer = [engine |-> "FixedWindow", limit |-> c.limit, rate |-> 0,
                          window |-> c.window, skew |-> 0]] :
        c \in { x \in Configs({"TokenBucket", "FixedWindow"}, Procs, {"k1"}, MaxTimeKeys) :
                    x.window = TicksPerSec /\ (x.engine = "FixedWindow" \/ x.rate = 1) } }
InitShared == InitWith(SharedConfigs)
SpecShared == InitShared /\ [][Next]_vars

\* two instances of one rate engine (same capacity, same rate of at least 1),
\* one caller each, on one key of one store that hands out copies of its values;
\* the clock of the second instance's host is one or two seconds behind
Skews == {TicksPerSec, 2 * TicksPerSec}
SkewConfigs ==
    { [c EXCEPT !.burst = MaxCallsKeys,
                !.peer = [engine |-> c.engine, limit |-> c.limit, rate |-> c.rate,
                          window |-> c.window, skew |-> d]] :
        c \in { x \in Configs({"TokenBucket", "LeakyBucket"}, Procs, {"k1"}, MaxTimeKeys) :
                    x.rate >= 1 },
        d \in Skews }
InitSkew == InitWith(SkewConfigs)
SpecSkew == InitSkew /\ [][Next]_vars

\* one caller on TokenBucket whose admissions are all logged, from one Reset to
\* the next
LogConfigs ==
    { [c EXCEPT !.log = TRUE] : c \in Configs({"TokenBucket"}, {"p1"}, {"k1"}, MaxTime) }
InitLog == InitWith(LogConfigs)
SpecLog == InitLog /\ [][Next]_vars

\* ------------------------------------------------- callers that wait, sweep
\* a caller calls Allow or Reset: it waits in mu.Lock() of its engine until it
\* enters (at most cfg.burst Allow calls on one key at one clock value)
Invoke(p, k, op) ==
    /\ p \in cfg.procs /\ k \in cfg.keys
    /\ proc[p] = Idle
    /\ op = "Allow" =>
            (IF inst[k].t = now THEN inst[k].begun ELSE 0)
              + Cardinality({q \in Procs : proc[q].wait = "Allow" /\ proc[q].key = k})
                < cfg.burst
    /\ proc' = [proc EXCEPT ![p] = Waiting(op, k)]
    /\ UNCHANGED <<cfg, now, store, mu, last, inst, win, admits, twin, scen>>

\* the waiting caller gets the engine's mutex and runs the first half of Allow
EnterAllow(p) ==
    \E k \in Keys : proc[p].wait = "Allow" /\ proc[p].key = k /\ AllowBegin(p, k)

\* the waiting caller gets the engine's mutex and runs Reset
EnterReset(p) ==
    \E k \in Keys : proc[p].wait = "Reset" /\ proc[p].key = k /\ Reset(p, k)

\* cleanupExpired, ticker fired: ms.mu.Lock(); now := time.Now(); delete the
\* expired entries
SweepLock ==
    /\ StoreFree
    /\ mu' = [mu EXCEPT ![StoreLock] = "sweep"]
    /\ store' = StoreSweep(store, now)
    /\ twin' = [k \in Keys |->
                 IF twin[k].entry.present /\ Expired(twin[k].entry, now)
                 THEN [twin[k] EXCEPT !.entry = NoEntry] ELSE twin[k]]
    /\ UNCHANGED <<cfg, now, proc, last, inst, win, admits, scen>>

\* cleanupExpired: ms.mu.Unlock()
SweepUnlock ==
    /\ mu[StoreLock] = "sweep"
    /\ mu' = [mu EXCEPT ![StoreLock] = "free"]
    /\ UNCHANGED <<cfg, now, store, proc, last, inst, win, admits, twin, scen>>

NextLive ==
    \/ \E p \in Procs, k \in Keys, op \in {"Allow", "Reset"} : Invoke(p, k, op)
    \/ \E p \in Procs : EnterAllow(p)
    \/ \E p \in Procs : EnterReset(p)
    \/ \E p \in Procs : AllowEnd(p)
    \/ SweepLock
    \/ SweepUnlock
    \/ Tick

\* fair scheduling: a goroutine that can take a step takes it (the sweep leaves
\* its critical section), and a caller blocked in Lock of a mutex that becomes
\* free again and again gets it (sync.Mutex hands the mutex to a waiter that has
\* waited long: starvation mode)
FairLive ==
    /\ WF_vars(SweepUnlock)
    /\ \A p \in Procs : SF_vars(EnterAllow(p) \/ EnterReset(p) \/ AllowEnd(p))

\* two callers on one engine instance (any engine, limit 1, rate 1, the window
\* of one second) over a MemoryStore whose sweep runs; the calls are made with a
\* named key, or with the empty key (every Allow returns an error)
LiveConfigs ==
    { [c EXCEPT !.keys = {k}, !.steps = {1}, !.burst = MaxCallsLive] :
        c \in { x \in Configs(Engines, Procs, {"k1"}, MaxTimeLive) :
                    /\ x.limit = 1 /\ x.window = TicksPerSec
                    /\ x.engine \in WindowEngines \/ x.rate = 1 },
        k \in {"k1", EmptyKey} }
InitLive == InitWith(LiveConfigs)
SpecLive == InitLive /\ [][NextLive]_vars /\ FairLive

\* ------------------------------------------------------------- properties
Engine(e) == cfg.engine = e
Allowed(k) == last[k].op = "Allow" /\ last[k].res.Allowed
Denied(k) == last[k].op = "Allow" /\ ~last[k].res.Allowed

\* the last call on k is the latest call of the instant that inst[k] counts
LastOfInstant(k) == last[k].op = "Allow" /\ inst[k].done >= 1 /\ last[k].t = inst[k].t

\* C1: for every engine, the first Allow on a key that has no live record in the
\* store (Get finds nothing, or only an expired entry) is allowed, whatever the clock
FirstAllowAllowed ==
    \A k \in Keys : (last[k].op = "Allow" /\ last[k].pre = Nil) => last[k].res.Allowed

\* a first call at a later clock value, on a key whose earlier record has expired
FirstAllowWitness ==
    \E k \in Keys : /\ Allowed(k) /\ last[k].pre = Nil
                     /\ last[k].gap > 0 /\ last[k].prevPost # Nil

\* C2: the Allow calls that concurrent callers make on one fresh key at one clock
\* value admit exactly min(N, limit) of the N calls completed so far
ConcurrentAdmitsExact ==
    \A k \in Keys : inst[k].fresh => inst[k].allowed = Min(inst[k].done, cfg.limit)

\* the limit is used up by one caller while another caller is inside Allow for
\* the same key at the same clock value
ConcurrentAdmitsWitness ==
    \E k \in Keys, p \in Procs :
        /\ proc[p].busy /\ proc[p].key = k /\ proc[p].tnow = inst[k].t
        /\ last[k].op = "Allow" /\ last[k].by # p
        /\ inst[k].fresh /\ inst[k].allowed = cfg.limit

\* C3: TokenBucket, fresh key, back-to-back calls with no elapsed time: the i-th
\* call is allowed with Remaining = capacity - i for i <= capacity, and the
\* (capacity+1)-th and later calls are denied
TokenBucketBurst ==
    \A k \in Keys :
        (Engine("TokenBucket") /\ inst[k].fresh /\ LastOfInstant(k)) =>
            IF inst[k].done <= cfg.limit
            THEN last[k].res.Allowed /\ last[k].res.Remaining = cfg.limit - inst[k].done
            ELSE ~last[k].res.Allowed

TokenBucketBurstWitness ==
    \E k \in Keys :
        /\ Engine("TokenBucket") /\ cfg.limit >= 2
        /\ inst[k].fresh /\ LastOfInstant(k)
        /\ inst[k].done = cfg.limit + 1 /\ inst[k].allowed = cfg.limit /\ Denied(k)

\* C4: FixedWindow, counting a key's calls from its last Reset: the n-th call
\* inside one window index is allowed with Remaining = limit - n for n <= limit
\* and denied with Remaining 0 beyond; the first call of a new window is n = 1
FixedWindowCounts ==
    \A k \in Keys :
        (Engine("FixedWindow") /\ last[k].op = "Allow") =>
            /\ win[k].w = WindowIndex(cfg, last[k].t)
            /\ last[k].res.Allowed = (win[k].calls <= cfg.limit)
            /\ last[k].res.Remaining =
                    IF win[k].calls <= cfg.limit THEN cfg.limit - win[k].calls ELSE 0

\* a key denied in one window is allowed again by its first call after the boundary
FixedWindowCountsWitness ==
    \E k \in Keys :
        /\ Engine("FixedWindow") /\ Allowed(k)
        /\ win[k].calls = 1 /\ last[k].res.Remaining = cfg.limit - 1
        /\ last[k].prevPost # Nil /\ last[k].prevPost.Count > cfg.limit
        /\ last[k].prevPost.Window = win[k].w - 1

\* the admissions of k inside (t - window, t]
AdmittedIn(k, t) ==
    Cardinality({i \in DOMAIN admits[k] : admits[k][i] > t - cfg.window /\ admits[k][i] <= t})

\* C5: SlidingWindow (log), counting from the key's last Reset: after every Allow
\* at instant t, the requests admitted in (t - windowSize, t] are at most limit
\* (an interval holds the most admissions when it ends on a call)
SlidingWindowExact ==
    \A k \in Keys :
        (Engine("SlidingWindow") /\ last[k].op = "Allow") => AdmittedIn(k, last[k].t) <= cfg.limit

\* the window is full, with admissions of different instants, and a call is denied
SlidingWindowExactWitness ==
    \E k \in Keys :
        /\ Engine("SlidingWindow") /\ Denied(k)
        /\ AdmittedIn(k, last[k].t) = cfg.limit
        /\ admits[k][1] < admits[k][Len(admits[k])]

\* C6: SlidingWindow (log): when every earlier admission of the key lies a full
\* windowSize or more before the instant of a call, that call is allowed and the
\* record then holds exactly its timestamp, and the calls of that instant admit
\* limit requests again
SlidingWindowSlides ==
    \A k \in Keys :
        (Engine("SlidingWindow") /\ inst[k].clear /\ LastOfInstant(k)) =>
            /\ inst[k].allowed = Min(inst[k].done, cfg.limit)
            /\ inst[k].done = 1 => last[k].post.Timestamps = << last[k].t >>

\* the key had used its full limit, exactly one window passed since, the record
\* was still live, and the key is admitted limit times again
SlidingWindowSlidesWitness ==
    \E k \in Keys :
        /\ Engine("SlidingWindow") /\ cfg.limit >= 2
        /\ inst[k].clear /\ ~inst[k].fresh /\ LastOfInstant(k)
        /\ inst[k].allowed = cfg.limit /\ inst[k].done = cfg.limit
        /\ Len(last[k].post.Timestamps) = cfg.limit
        /\ last[k].post.Timestamps[1] = last[k].t

\* C7, as claimed: SlidingWindowCounter never admits more than limit requests in
\* a sliding interval of windowSize
SlidingWindowCounterExact ==
    \A k \in Keys :
        (Engine("SlidingWindowCounter") /\ last[k].op = "Allow") =>
            AdmittedIn(k, last[k].t) <= cfg.limit

\* C7, amended: SlidingWindowCounter, counting from the key's last Reset, admits
\* at most limit requests inside one window index, and so at most 2 x limit in
\* any sliding interval of windowSize
SlidingWindowCounterBounded ==
    \A k \in Keys :
        (Engine("SlidingWindowCounter") /\ last[k].op = "Allow") =>
            /\ win[k].w = WindowIndex(cfg, last[k].t)
            /\ win[k].allowed <= cfg.limit
            /\ AdmittedIn(k, last[k].t) <= 2 * cfg.limit

\* a sliding interval that holds more than limit admissions
SlidingWindowCounterBoundedWitness ==
    \E k \in Keys :
        /\ Engine("SlidingWindowCounter") /\ Allowed(k)
        /\ AdmittedIn(k, last[k].t) > cfg.limit

\* the scenario of C8 on key k with limit 2
Scenario(k) == Engine("SlidingWindowCounter") /\ cfg.limit = 2 /\ scen[k].t0 >= 0

\* C8, as claimed: two calls at a window start are allowed, two calls half a
\* window later are denied, two calls at or just after the next window start
\* are allowed
SlidingWindowCounterScenario ==
    \A k \in Keys : Scenario(k) =>
        \A i \in DOMAIN scen[k].calls :
            LET call == scen[k].calls[i] IN
            /\ i \in {1, 2} => call.allowed
            /\ i \in {3, 4} => ~call.allowed
            /\ (i \in {5, 6} /\ call.dt \in {cfg.window, cfg.window + 1}) => call.allowed

\* C8, amended: two calls at a window start are allowed, two calls half a window
\* later are denied; in the next window the first call is allowed unless it
\* comes exactly at the window start, and the second call is allowed only when
\* more than half of that window has passed
SlidingWindowCounterScenarioAmended ==
    \A k \in Keys : Scenario(k) =>
        \A i \in DOMAIN scen[k].calls :
            LET call == scen[k].calls[i] IN
            /\ i \in {1, 2} => call.allowed
            /\ i \in {3, 4} => ~call.allowed
            /\ i = 5 => (call.allowed <=> call.dt > cfg.window)
            /\ i = 6 => (call.allowed <=> 2 * (call.dt - cfg.window) > cfg.window)

\* the whole scenario has run and both calls of the next window were allowed
SlidingWindowCounterScenarioWitness ==
    \E k \in Keys :
        /\ Scenario(k) /\ Len(scen[k].calls) = 6
        /\ scen[k].calls[5].allowed /\ scen[k].calls[6].allowed

\* C9: LeakyBucket: when the previous Allow left the queue at q and the next
\* Allow comes d later with floor(d x rate) >= q, that Allow is allowed and
\* leaves queueLength = 1
LeakyBucketDrains ==
    \A k \in Keys :
        (/\ Engine("LeakyBucket") /\ last[k].op = "Allow" /\ last[k].prevPost # Nil
         /\ TruncMulDiv(last[k].gap, cfg.rate, cfg.tps) >= last[k].prevPost.Queue) =>
            /\ last[k].res.Allowed
            /\ last[k].post.Queue = 1

\* C10: for every engine, after a Reset that returned no error the key has no
\* record in the store, and every Allow that follows returns the decision a
\* never-seen key given the same calls at the same instants gets
ResetMakesFresh ==
    \A k \in Keys :
        /\ (last[k].op = "Reset" /\ ~last[k].err) => ~store[k].present
        /\ (twin[k].on /\ last[k].op = "Allow") =>
                last[k].res = last[k].twin /\ store[k] = twin[k].entry

\* an exhausted key was reset and is allowed again, more than once
ResetMakesFreshWitness ==
    \E k \in Keys :
        /\ twin[k].on /\ twin[k].exhausted
        /\ Allowed(k) /\ inst[k].done >= 2 /\ LastOfInstant(k)

\* C11: for every engine, Reset(key) on a key that has no live record (never
\* seen, already reset, or expired) returns an error, leaves the record of every
\* other key as it is and leaves every key with the live record it had
ResetMissingFails ==
    [][\A p \in Procs, k \in Keys :
          (Reset(p, k) /\ StoreGetValue(store, k, now) = Nil) =>
              /\ last'[k].op = "Reset" /\ last'[k].err
              /\ \A k2 \in Keys :
                    /\ StoreGetValue(store', k2, now) = StoreGetValue(store, k2, now)
                    /\ k2 # k => store'[k2] = store[k2]]_vars

\* a second Reset right after a successful Reset has failed, while the other key
\* holds a live record
ResetMissingFailsWitness ==
    \E k \in Keys, k2 \in Keys :
        /\ last[k].op = "Reset" /\ last[k].err /\ last[k].prev = "Reset"
        /\ k2 # k /\ StoreExists(store, k2, now)

\* the entry a lookup at t finds
LiveEntry(e, t) == IF e.present /\ ~Expired(e, t) THEN e ELSE NoEntry

\* C12: key isolation: with two keys on one engine instance, every key holds at
\* every moment the live record it holds when only its own calls are made, and
\* every Allow on it returns the decision it returns when only its own calls are
\* made, whatever calls of Allow and Reset are made on the other key
KeyIsolation ==
    \A k \in Keys :
        /\ LiveEntry(store[k], now) = LiveEntry(twin[k].entry, now)
        /\ last[k].op = "Allow" => last[k].res = last[k].twin

\* one key is exhausted and holds its record, and the other key, called for the
\* first time at a later clock value, is allowed
KeyIsolationWitness ==
    \E k1 \in Keys, k2 \in Keys :
        /\ k1 # k2 /\ Denied(k1) /\ StoreExists(store, k1, now)
        /\ Allowed(k2) /\ last[k2].pre = Nil /\ last[k2].prev = "none"
        /\ last[k2].t > last[k1].t

\* C13: idempotence of denial, for every engine: once an Allow on a key has been
\* denied, every further Allow on the key that reads the same clock value is
\* denied too, with Limit = the configured limit and Remaining = 0 (the engines
\* that return a Result), whatever the number of repetitions
DenialIdempotent ==
    \A k \in Keys :
        (LastOfInstant(k) /\ inst[k].done > inst[k].allowed) =>
            /\ ~last[k].res.Allowed
            /\ cfg.engine \in ResultEngines =>
                    last[k].res.Limit = cfg.limit /\ last[k].res.Remaining = 0

\* a key is denied for the second time at one clock value
DenialIdempotentWitness ==
    \E k \in Keys :
        /\ LastOfInstant(k) /\ Denied(k)
        /\ inst[k].done >= inst[k].allowed + 2 /\ inst[k].allowed >= 1

\* C14: every Result returned without error by TokenBucket, FixedWindow,
\* SlidingWindowCounter and LeakyBucket has Remaining >= 0, and RetryAfter = 0
\* exactly when Allowed, for every configuration the constructors accept
DecisionWellFormed ==
    \A k \in Keys :
        (cfg.engine \in ResultEngines /\ last[k].op = "Allow" /\ ~last[k].err) =>
            /\ last[k].res.Remaining >= 0
            /\ (last[k].res.RetryAfter = 0) <=> last[k].res.Allowed

\* C15: when store.Get fails for a reason other than the key being absent or
\* expired, Allow returns an error to the caller (and does not go on from a
\* fresh default state)
GetFailureReturned ==
    \A k \in Keys : (last[k].op = "Allow" /\ "get" \in last[k].fault) => last[k].err

\* C16: when store.Set fails during Allow, on the allowed path as on the denied
\* path, Allow returns the zero-value decision together with an error
SetFailureReturned ==
    \A k \in Keys :
        (last[k].op = "Allow" /\ "set" \in last[k].fault) =>
            /\ last[k].err
            /\ last[k].res = IF cfg.engine \in ResultEngines
                              THEN Result(FALSE, 0, 0, 0) ELSE [Allowed |-> FALSE]

\* C17: TokenBucket with refillRate = 0: once an Allow has left the key with no
\* tokens, the next Allow on the key is denied, whatever time has passed, unless
\* Reset was called in between
TokenBucketStaysEmpty ==
    \A k \in Keys :
        (/\ Engine("TokenBucket") /\ cfg.rate = 0 /\ last[k].op = "Allow"
         /\ last[k].prevPost # Nil /\ last[k].prevPost.Tokens = 0) =>
            ~last[k].res.Allowed

\* C18: TokenBucket: every record that Allow persists has 0 <= Tokens <= capacity
TokensWithinCapacity ==
    \A k \in Keys :
        Engine("TokenBucket") =>
            /\ last[k].op = "Allow" =>
                    last[k].post.Tokens >= 0 /\ last[k].post.Tokens <= cfg.limit
            /\ store[k].present =>
                    store[k].value.Tokens >= 0 /\ store[k].value.Tokens <= cfg.limit

\* a key that is not full is called after an idle time whose refill, uncapped,
\* would take it above the capacity, and holds capacity - 1 tokens afterwards
TokensWithinCapacityWitness ==
    \E k \in Keys :
        /\ Engine("TokenBucket") /\ Allowed(k)
        /\ last[k].pre # Nil /\ last[k].pre.Tokens < cfg.limit
        /\ last[k].pre.Tokens + GoDiv(last[k].t - last[k].pre.LastRefillTs, cfg.tps) * cfg.rate
                > cfg.limit
        /\ last[k].post.Tokens = cfg.limit - 1
        /\ store[k].present /\ store[k].value = last[k].post

\* C19: TokenBucket: after a call that left the key with no tokens and an idle
\* time of d, the back-to-back Allow calls that follow admit exactly
\* min(capacity, floor(d in seconds) x refillRate) requests before the next
\* denial (and no more than that before it)
TokenBucketRefill ==
    \A k \in Keys :
        (Engine("TokenBucket") /\ LastOfInstant(k) /\ inst[k].idle >= 0) =>
            LET n == Min(cfg.limit, GoDiv(inst[k].idle, cfg.tps) * cfg.rate)
            IN  IF last[k].res.Allowed THEN inst[k].allowed <= n ELSE inst[k].allowed = n

\* C20: FixedWindow, counting from the key's last Reset: at most limit requests
\* are admitted within one window index, and so at most 2 x limit in any
\* interval of length windowSize (an interval holds the most admissions when it
\* ends on a call)
FixedWindowBounded ==
    \A k \in Keys :
        (Engine("FixedWindow") /\ last[k].op = "Allow") =>
            /\ win[k].w = WindowIndex(cfg, last[k].t)
            /\ win[k].allowed <= cfg.limit
            /\ AdmittedIn(k, last[k].t) <= 2 * cfg.limit

\* the boundary burst: limit requests admitted at the end of one window and
\* limit more at the start of the next, all within one windowSize
FixedWindowBoundedWitness ==
    \E k \in Keys :
        /\ Engine("FixedWindow") /\ Allowed(k)
        /\ win[k].allowed = cfg.limit
        /\ AdmittedIn(k, last[k].t) = 2 * cfg.limit

\* C21: FixedWindow and SlidingWindowCounter: every denial carries RetryAfter =
\* the time left from the clock value the call read to the start of the next
\* window, (windowIndex + 1) x windowSize - now, so 0 < RetryAfter <= windowSize
\* and now + RetryAfter is a window start
RetryAfterNextWindow ==
    \A k \in Keys :
        (cfg.engine \in {"FixedWindow", "SlidingWindowCounter"} /\ Denied(k)) =>
            LET r == last[k].res.RetryAfter
                into == last[k].t % cfg.window
            IN  /\ r = cfg.window - into
                /\ r > 0 /\ r <= cfg.window
                /\ (last[k].t + r) % cfg.window = 0
                /\ (last[k].t + r) \div cfg.window = (last[k].t \div cfg.window) + 1

\* a denial inside a window, with less than a whole window left
RetryAfterNextWindowWitness ==
    \E k \in Keys :
        /\ cfg.engine \in {"FixedWindow", "SlidingWindowCounter"} /\ Denied(k)
        /\ last[k].t % cfg.window # 0
        /\ last[k].res.RetryAfter > 0 /\ last[k].res.RetryAfter < cfg.window

\* C25: a non-positive capacity or limit is rejected: the engine is refused at
\* construction, or else every Allow on it returns an error instead of a decision
NonPositiveLimitRejected ==
    cfg.limit <= 0 =>
        \/ cfg.engine = "none"
        \/ \A k \in Keys : last[k].op = "Allow" => last[k].err

\* C26: a window engine asked for with windowSize <= 0 is not constructed (the
\* constructor panics): every engine that exists has a positive window size, and
\* no call of Allow or Reset is ever made with a non-positive window size
WindowSizePositive ==
    /\ cfg.engine \in WindowEngines => cfg.window > 0
    /\ cfg.window <= 0 =>
            /\ cfg.engine = "none" /\ cfg.procs = {}
            /\ \A p \in Procs : ~proc[p].busy
            /\ \A k \in Keys : last[k] = NoCall /\ ~store[k].present

\* the constructor was called with a non-positive window size, and time passes
\* with no engine and no call
WindowSizePositiveWitness ==
    cfg.engine = "none" /\ cfg.window <= 0 /\ now > 0 /\ \A p \in Procs : proc[p] = Idle

\* C27: MemoryStore: a Get that returns a value and an Exists that returns true
\* found an entry whose expiration instant has not passed, swept or not; a sweep
\* removes only entries whose expiration instant has passed and leaves the
\* result of Get and of Exists for every key as it was
ExpiredNeverReported ==
    [][/\ \A p \in Procs, k \in Keys :
            (AllowBegin(p, k) /\ proc'[p].value # Nil) =>
                /\ store[k].present /\ now <= store[k].expiration
                /\ proc'[p].value = store[k].value
       /\ \A p \in Procs, k \in Keys :
            (Reset(p, k) /\ ~last'[k].err) =>
                store[k].present /\ now <= store[k].expiration
       /\ Sweep =>
            \A k \in Keys :
                /\ store'[k] # store[k] =>
                        store[k].present /\ now > store[k].expiration /\ ~store'[k].present
                /\ StoreGetValue(store', k, now) = StoreGetValue(store, k, now)
                /\ StoreExists(store', k, now) = StoreExists(store, k, now)]_vars

\* the sweep has removed the expired record of one key (no lookup of the key
\* came after its last Allow) while the other key holds a live record
ExpiredNeverReportedWitness ==
    \E k1 \in Keys, k2 \in Keys :
        /\ k1 # k2 /\ last[k1].op = "Allow" /\ ~last[k1].err /\ ~store[k1].present
        /\ \A p \in Procs : ~proc[p].busy
        /\ StoreExists(store, k2, now) /\ last[k2].op = "Allow"

\* the counts Allow works on at t, from the record it read: those of the record
\* when it is of the window index of t, else (any other window index) the current
\* count moved to the previous count; no counts for a key without a record
CountsAt(pre, t) ==
    IF pre = Nil THEN [prev |-> 0, cur |-> 0]
    ELSE IF pre.CurrentWindow = t \div cfg.window
    THEN [prev |-> pre.PreviousCount, cur |-> pre.CurrentCount]
    ELSE [prev |-> pre.CurrentCount, cur |-> 0]

\* the decision of C30: allowed iff previous x overlap / windowSize + current <
\* limit, the counts persisted are (previous, current + 1) when allowed and
\* (previous, current) when denied
SlidingWindowCounterDecision ==
    \A k \in Keys :
        (Engine("SlidingWindowCounter") /\ last[k].op = "Allow") =>
            LET n == CountsAt(last[k].pre, last[k].t)
                overlap == cfg.window - (last[k].t % cfg.window)
            IN  /\ last[k].res.Allowed <=>
                        n.prev * overlap + n.cur * cfg.window < cfg.limit * cfg.window
                /\ last[k].post.PreviousCount = n.prev
                /\ last[k].post.CurrentCount =
                        IF last[k].res.Allowed THEN n.cur + 1 ELSE n.cur

\* C30: SlidingWindowCounter: Allow is allowed iff previousCount x
\* overlapFraction + currentCount < limit (strict), overlapFraction =
\* (windowSize - now mod windowSize) / windowSize; when allowed, currentCount
\* grows by exactly 1 and Remaining = limit - floor(estimate), the estimate taken
\* before the increment; when denied, the counts stay and Remaining = 0
SlidingWindowCounterRule ==
    /\ SlidingWindowCounterDecision
    /\ \A k \in Keys :
        (Engine("SlidingWindowCounter") /\ last[k].op = "Allow") =>
            LET n == CountsAt(last[k].pre, last[k].t)
                overlap == cfg.window - (last[k].t % cfg.window)
            IN  last[k].res.Remaining =
                    IF last[k].res.Allowed
                    THEN cfg.limit - ((n.prev * overlap + n.cur * cfg.window) \div cfg.window)
                    ELSE 0

\* C24: Allow with the empty key returns an error and no allowed decision, Reset
\* with the empty key returns an error, and neither creates or changes a record
EmptyKeyRejected ==
    /\ ~store[EmptyKey].present
    /\ last[EmptyKey].op = "Allow" => last[EmptyKey].err /\ ~last[EmptyKey].res.Allowed
    /\ last[EmptyKey].op = "Reset" => last[EmptyKey].err
    /\ last[EmptyKey].op # "none" =>
            \A k \in NamedKeys : last[k].op = "none" => ~store[k].present

\* the part of C24 that holds: the engines that return a Result
EmptyKeyRejectedResult == cfg.engine \in ResultEngines => EmptyKeyRejected

\* the TTL the engine prescribes for its record
PrescribedTTL ==
    CASE cfg.engine \in {"TokenBucket", "LeakyBucket"} -> 3600 * cfg.tps
      [] cfg.engine \in {"FixedWindow", "SlidingWindow"} -> cfg.window
      [] cfg.engine = "SlidingWindowCounter" -> 2 * cfg.window

\* C28: for every engine, when an Allow on a key returns without error, allowed
\* or denied, the store holds a live record of the key, the one the call
\* computed, that expires the prescribed TTL after the call's Set
AllowPersists ==
    [][\A p \in Procs :
          (AllowEnd(p) /\ ~last'[proc[p].key].err) =>
              LET k == proc[p].key
              IN  /\ store'[k].present /\ store'[k].value = last'[k].post
                  /\ store'[k].expiration = now + PrescribedTTL
                  /\ StoreExists(store', k, now)]_vars

\* C22: two engines of different algorithms on one key of one store keep disjoint
\* store entries: the Get of an Allow never returns a record written by the other
\* engine, the Set of an Allow never replaces one, and a Reset never deletes one
EnginesDisjoint ==
    [][\A p \in Procs, k \in Keys :
          LET own == CfgOf(p).engine
          IN  /\ AllowBegin(p, k) => BucketType(proc'[p].value) \in {"nil", own}
              /\ (AllowEnd(p) /\ proc[p].key = k) =>
                    BucketType(StoreGetValue(store, k, now)) \in {"nil", own}
              /\ (Reset(p, k) /\ ~last'[k].err) => BucketType(store[k].value) = own]_vars

\* two FixedWindow instances share the store
SharedFixedWindow ==
    HasPeer /\ cfg.engine = "FixedWindow" /\ cfg.peer.engine = "FixedWindow"

\* C23: two engine instances on one store: every Allow decides on the record
\* its own Get returned and writes the record it computed from that one,
\* whatever the other instance has written in between; nothing makes the cycle
\* of Get and Set atomic across the instances
AllowDecidesOnRecordRead ==
    \A k \in Keys :
        (SharedFixedWindow /\ last[k].op = "Allow") =>
            LET pre == last[k].pre
                w == last[k].t \div cfg.window
                count == (IF pre = Nil \/ pre.Window # w THEN 0 ELSE pre.Count) + 1
            IN  /\ last[k].res.Allowed <=> count <= cfg.limit
                /\ last[k].post = [Count |-> count, Window |-> w]

\* the interleaving of C23: the last two Allow calls on the key, one of each
\* instance, read the same record and wrote the same count, both were admitted,
\* and the key has been admitted more than limit times in this window
SharedOverAdmitWitness ==
    \E k \in Keys :
        /\ SharedFixedWindow /\ Allowed(k) /\ last[k].prev = "Allow"
        /\ last[k].post = last[k].prevPost
        /\ win[k].w = last[k].t \div cfg.window
        /\ win[k].allowed > cfg.limit

\* C29: no operation blocks indefinitely: with concurrent callers on one engine
\* instance over a MemoryStore whose sweep runs, under fair scheduling every
\* call of Allow and of Reset returns; the engine's mutex is held only by a
\* caller inside Allow, so it is released on every return, error returns
\* included; the sweep holds the store's mutex only while it runs
NoCallBlocks ==
    /\ [](\A l \in Instances : mu[l] # "free" => proc[mu[l]].busy)
    /\ \A p \in Procs : (proc[p] # Idle) ~> (proc[p] = Idle)

\* after an Allow has returned an error, one caller waits for the engine's mutex
\* while the other holds it inside Allow and the sweep holds the store's mutex
NoCallBlocksWitness ==
    \E p \in Procs, q \in Procs :
        /\ p # q /\ proc[p].busy /\ mu[InstOf(p)] = p
        /\ proc[q].wait # "none"
        /\ mu[StoreLock] = "sweep"
        /\ last[EmptyKey].op = "Allow" /\ last[EmptyKey].err

\* C31: SlidingWindowCounter persists with TTL = 2 x windowSize: a record written
\* at any instant of window w is readable at every instant of window w+1 (it
\* stays in the store until then, unless Reset), and the first Allow of window
\* w+1 reads it and takes the count of window w as its PreviousCount
PreviousWindowReadable ==
    \A k \in Keys :
        Engine("SlidingWindowCounter") =>
            /\ store[k].present =>
                    /\ store[k].expiration >= (store[k].value.CurrentWindow + 2) * cfg.window - 1
                    /\ \A t \in 0..(2 * cfg.window - 1) :
                            ~Expired(store[k], store[k].value.CurrentWindow * cfg.window + t)
            /\ (last[k].op = "Allow" /\ WindowIndex(cfg, now) <= WindowIndex(cfg, last[k].t) + 1) =>
                    StoreGetValue(store, k, now) = last[k].post
            /\ (/\ last[k].op = "Allow" /\ last[k].prevPost # Nil
                /\ WindowIndex(cfg, last[k].t) = last[k].prevPost.CurrentWindow + 1) =>
                    /\ last[k].pre = last[k].prevPost
                    /\ last[k].post.PreviousCount = last[k].prevPost.CurrentCount

\* a record written at the first instant of a window is read at the last instant
\* of the next window, two windows less one tick later
PreviousWindowReadableWitness ==
    \E k \in Keys :
        /\ Engine("SlidingWindowCounter") /\ last[k].op = "Allow"
        /\ last[k].prevPost # Nil /\ last[k].prevPost.CurrentCount >= 1
        /\ last[k].gap = 2 * cfg.window - 1
        /\ WindowIndex(cfg, last[k].t) = last[k].prevPost.CurrentWindow + 1
        /\ last[k].post.PreviousCount = last[k].prevPost.CurrentCount

\* the part of C32 that holds: 0 <= queue <= capacity in every record that
\* LeakyBucket persists
LeakyBucketQueueBounded ==
    \A k \in Keys :
        Engine("LeakyBucket") =>
            /\ last[k].op = "Allow" =>
                    last[k].post.Queue >= 0 /\ last[k].post.Queue <= cfg.limit
            /\ store[k].present =>
                    store[k].value.Queue >= 0 /\ store[k].value.Queue <= cfg.limit

\* C32: LeakyBucket: each Allow first sets queue := max(0, queue -
\* floor(elapsedSeconds x rate)) and lastLeak := now (a key without a record
\* starts with queue 0), then allows iff queue < capacity, enqueueing one and
\* reporting Remaining = capacity - queue after the enqueue; hence 0 <= queue <=
\* capacity in every persisted record
LeakyBucketRule ==
    /\ LeakyBucketQueueBounded
    /\ \A k \in Keys :
        (Engine("LeakyBucket") /\ last[k].op = "Allow") =>
            LET pre == last[k].pre
                elapsed == IF pre = Nil THEN 0 ELSE last[k].t - pre.LastLeak
                drained == (IF pre = Nil THEN 0 ELSE pre.Queue)
                                - TruncMulDiv(elapsed, cfg.rate, cfg.tps)
                queue == IF drained < 0 THEN 0 ELSE drained
            IN  /\ last[k].res.Allowed <=> queue < cfg.limit
                /\ last[k].post.LastLeak = last[k].t
                /\ last[k].post.Queue = IF last[k].res.Allowed THEN queue + 1 ELSE queue
                /\ last[k].res.Allowed => last[k].res.Remaining = cfg.limit - (queue + 1)

\* C33: SlidingWindow (log): the record an Allow at t writes holds the stored
\* timestamps later than t - windowSize, in their order, followed by t when the
\* call is allowed and by nothing when it is denied; every persisted record
\* holds at most limit timestamps, all of them later than t - windowSize
SlidingWindowLogRule ==
    \A k \in Keys :
        Engine("SlidingWindow") =>
            /\ store[k].present => Len(store[k].value.Timestamps) <= cfg.limit
            /\ last[k].op = "Allow" =>
                    LET t == last[k].t
                        Later(x) == x > t - cfg.window
                        old == IF last[k].pre = Nil THEN << >> ELSE last[k].pre.Timestamps
                        kept == SelectSeq(old, Later)
                        new == last[k].post.Timestamps
                    IN  /\ new = IF last[k].res.Allowed THEN Append(kept, t) ELSE kept
                        /\ Len(new) <= cfg.limit
                        /\ \A i \in DOMAIN new : new[i] > t - cfg.window /\ new[i] <= t

\* a call finds a full record, drops its oldest timestamp (exactly one window
\* old), keeps a later one and is allowed
SlidingWindowLogRuleWitness ==
    \E k \in Keys :
        /\ Engine("SlidingWindow") /\ Allowed(k) /\ cfg.limit >= 2
        /\ last[k].pre # Nil /\ Len(last[k].pre.Timestamps) = cfg.limit
        /\ last[k].pre.Timestamps[1] = last[k].t - cfg.window
        /\ last[k].pre.Timestamps[2] > last[k].t - cfg.window
        /\ last[k].post.Timestamps = << last[k].pre.Timestamps[2], last[k].t >>
        /\ store[k].present /\ store[k].value = last[k].post

\* C34: SlidingWindowCounter, counting from the key's last Reset: the
\* PreviousCount that an Allow in window w works with is the number of requests
\* admitted for the key during window w-1 (0 when none were admitted there),
\* whatever the gap since the key's last call: the first call of window w takes
\* the count of window w-1, the later calls of window w keep it
PreviousCountOfPreviousWindow ==
    [][\A p \in Procs :
          (AllowEnd(p) /\ Engine("SlidingWindowCounter")) =>
              LET k == proc[p].key
                  w == WindowIndex(cfg, proc[p].tnow)
                  used == last'[k].post.PreviousCount
              IN  IF win[k].w = w
                  THEN used = last[k].post.PreviousCount
                  ELSE used = IF win[k].w = w - 1 THEN win[k].allowed ELSE 0]_vars

\* C35: SlidingWindowCounter: every persisted record has 0 <= CurrentCount <=
\* limit (and the same for the count it carries over as PreviousCount), and,
\* counting from the key's last Reset, at most limit requests are admitted
\* within one window index
SlidingWindowCounterCountBounded ==
    \A k \in Keys :
        Engine("SlidingWindowCounter") =>
            /\ store[k].present =>
                    /\ store[k].value.CurrentCount >= 0
                    /\ store[k].value.CurrentCount <= cfg.limit
                    /\ store[k].value.PreviousCount >= 0
                    /\ store[k].value.PreviousCount <= cfg.limit
            /\ last[k].op = "Allow" =>
                    /\ last[k].post.CurrentCount >= 0
                    /\ last[k].post.CurrentCount <= cfg.limit
                    /\ win[k].w = last[k].post.CurrentWindow
                    /\ win[k].allowed = last[k].post.CurrentCount

\* a window that follows a window with admissions has admitted limit requests,
\* the record holds CurrentCount = limit, and the next call is denied
SlidingWindowCounterCountBoundedWitness ==
    \E k \in Keys :
        /\ Engine("SlidingWindowCounter") /\ Denied(k)
        /\ last[k].post.CurrentCount = cfg.limit /\ last[k].post.PreviousCount >= 1
        /\ win[k].allowed = cfg.limit
        /\ store[k].present /\ store[k].value = last[k].post

\* C36: TokenBucket with refillRate >= 1: when a key is exhausted at t (an Allow
\* at t was denied, or left the key with no tokens), the first Allow made at or
\* after t + 1 second is allowed, however many denied calls were made on the key
\* in between: no denial comes a second or more after the first denial of its
\* run, or a second or more after a call that left no tokens
TokenBucketPollingKeepsRefill ==
    \A k \in Keys :
        (Engine("TokenBucket") /\ cfg.rate >= 1 /\ Denied(k)) =>
            /\ last[k].t - last[k].since < cfg.tps
            /\ (last[k].prevPost # Nil /\ last[k].prevPost.Tokens = 0) =>
                    last[k].gap < cfg.tps

\* C37: LeakyBucket with rate >= 1: when an Allow on a key with a full queue is
\* denied at t, the first Allow made at or after t + 1 second is allowed,
\* however many denied calls were made on the key in between: no denial comes a
\* second or more after the first denial of its run
LeakyBucketPollingKeepsLeak ==
    \A k \in Keys :
        (Engine("LeakyBucket") /\ cfg.rate >= 1 /\ Denied(k)) =>
            last[k].t - last[k].since < cfg.tps

\* C38: TokenBucket, for every refillRate >= 1: a denial carries RetryAfter =
\* 1 second / refillRate, and when the next call on the key comes exactly that
\* much later, with no other call in between, it is allowed
RetryAfterSuffices ==
    [][\A p \in Procs :
          (AllowEnd(p) /\ Engine("TokenBucket") /\ cfg.rate >= 1) =>
              LET k == proc[p].key
              IN  /\ ~last'[k].res.Allowed =>
                        last'[k].res.RetryAfter * cfg.rate = cfg.tps
                  /\ (/\ last[k].op = "Allow" /\ ~last[k].res.Allowed
                      /\ proc[p].tnow - last[k].t = last[k].res.RetryAfter) =>
                        last'[k].res.Allowed]_vars

\* the admissions of k logged in the closed interval from the i-th to the j-th
\* are at most capacity + T x refillRate, T the length of the interval in seconds
WithinRate(k, i, j) ==
    (j - i + 1 - cfg.limit) * cfg.tps <= (admits[k][j] - admits[k][i]) * cfg.rate

\* C39: TokenBucket, counting from the key's last Reset: in every interval of T
\* seconds at most capacity + T x refillRate requests are admitted, for any
\* sequence of Allow calls and any store expirations of the key's record (an
\* interval holds the most admissions for its length when it starts and ends on
\* an admission)
TokenBucketRateBound ==
    \A k \in Keys :
        Engine("TokenBucket") =>
            \A i \in DOMAIN admits[k], j \in DOMAIN admits[k] : i <= j => WithinRate(k, i, j)

\* the part of C39 that holds in the model: refillRate >= 1
TokenBucketRateBoundRefilling == cfg.rate >= 1 => TokenBucketRateBound

\* the record and the Result of the last Allow on k keep within the capacity
WithinCapacity(k, level) ==
    /\ level >= 0 /\ level <= cfg.limit
    /\ last[k].res.Remaining >= 0

\* C40: two instances with skewed clocks on one store: TokenBucket keeps 0 <=
\* tokens <= capacity and LeakyBucket keeps 0 <= queue <= capacity in every
\* record, and Remaining >= 0 in every Result, also when the timestamp of the
\* record read is later than the clock value the caller read (a negative elapsed
\* time takes no tokens and queues nothing)
SkewKeepsWithinCapacity ==
    \A k \in Keys :
        last[k].op = "Allow" =>
            /\ Engine("TokenBucket") => WithinCapacity(k, last[k].post.Tokens)
            /\ Engine("LeakyBucket") => WithinCapacity(k, last[k].post.Queue)

\* the part of C40 that holds: the calls that read a record whose timestamp is
\* not later than their clock value
NoSkewKeepsWithinCapacity ==
    \A k \in Keys :
        (/\ last[k].op = "Allow" /\ last[k].pre # Nil
         /\ Engine("TokenBucket") => (/\ last[k].pre.LastRefillTs <= last[k].t
                                       /\ last[k].pre.Tokens >= 0
                                       /\ last[k].pre.Tokens <= cfg.limit)
         /\ Engine("LeakyBucket") => (/\ last[k].pre.LastLeak <= last[k].t
                                       /\ last[k].pre.Queue <= cfg.limit)) =>
            /\ Engine("TokenBucket") => WithinCapacity(k, last[k].post.Tokens)
            /\ Engine("LeakyBucket") => WithinCapacity(k, last[k].post.Queue)

====
